---- MODULE Spec2Model ----
(***************************************************************************)
(* A model of the AI & Music pipeline: run_model (the retry loop around    *)
(* the remote generation call and the normalisation of its response),      *)
(* main (the per-track loop with the tracks.csv ledger) and make_snippet   *)
(* (loop-to-length and window selection).                                  *)
(***************************************************************************)
EXTENDS Integers, Sequences, FiniteSets, TLC

\* ------------------------------------------------------------------ bounds
MaxRetries == 3
MaxBackoff == 2

\* ------------------------------------------------------- program constants
DefaultRetries == 3
DefaultBackoff == 2

VARIABLES
  \* run_model
  rm_pc,      \* "idle" | "loop" | "returned" | "raised"
  retries,    \* parameter retries
  backoff,    \* parameter backoff
  attempt,    \* the loop variable: the number of the next attempt
  last_err,   \* local last_err
  out,        \* local out: the last value replicate_mod.run returned
  trace,      \* the calls of replicate_mod.run and of time.sleep, in order
  result      \* what run_model returned or raised

rmVars == <<rm_pc, retries, backoff, attempt, last_err, out, trace, result>>

\* ----------------------------------------------------------- Python values
\* A value is a record of one shape: k its type, s a string payload,
\* l the entries of a list (or the value url() gives), d a mapping.
Mk(k, s, l, d) == [k |-> k, s |-> s, l |-> l, d |-> d]
PyNone == Mk("none", "", <<>>, <<>>)
PyStr(s) == Mk("str", s, <<>>, <<>>)
PyInt == Mk("int", "", <<>>, <<>>)
PyList(l) == Mk("list", "", l, <<>>)
PyDict(d) == Mk("dict", "", <<>>, d)
\* An object with a callable url attribute: url() gives u, or raises e.
PyObj(u) == Mk("obj", "", <<u>>, <<>>)
PyObjRaising(e) == Mk("objraise", e, <<>>, <<>>)
\* replicate_mod.run raising e instead of returning.
RemoteRaise(e) == Mk("raise", e, <<>>, <<>>)

NoErr == "None"
GenericErr == "RuntimeError: Model did not return a usable audio URL"

\* What replicate_mod.run may do on one call.
Responses ==
  { RemoteRaise("E1"), RemoteRaise("E2"),
    PyNone,
    PyStr("u1"),
    PyList(<<>>), PyList(<<PyInt>>), PyList(<<PyInt, PyStr("u1")>>),
    PyList(<<PyStr("u1"), PyStr("u2")>>),
    PyInt,
    PyDict(<<>>),
    PyDict("url" :> PyStr("u2")),
    PyDict(("audio" :> PyList(<<PyStr("u1")>>)) @@ ("output" :> PyStr("u2"))),
    PyDict("audio" :> PyList(<<PyInt, PyStr("u1")>>)),
    PyDict("output" :> PyList(<<PyInt>>)),
    PyDict("url" :> PyList(<<PyStr("u1")>>)),
    PyDict("other" :> PyStr("u1")),
    PyObj(PyStr("u1")), PyObj(PyInt), PyObjRaising("E3") }

\* ------------------------------------------------- run_model: normalisation
IsStr(x) == x.k = "str"

\* [x for x in l if isinstance(x, str)]
FilterStr(l) == SelectSeq(l, IsStr)

StrKeys == <<"audio", "audio_url", "output", "url">>
ListKeys == <<"audio", "output">>

\* The first key of keys, in order, that d holds with a value of type k (0: none).
FirstKey(d, keys, k) ==
  LET hits == {i \in 1..Len(keys) : keys[i] \in DOMAIN d /\ d[keys[i]].k = k}
  IN IF hits = {} THEN 0 ELSE CHOOSE i \in hits : \A j \in hits : i <= j

Return(val) == [act |-> "return", val |-> val, err |-> NoErr]
Continue == [act |-> "continue", val |-> <<>>, err |-> NoErr]
Throw(e) == [act |-> "raise", val |-> <<>>, err |-> e]

NoneOutcome_m == Return(<<>>)
\* if out is None: continue
NoneOutcome == Continue

\* The body of the try block after the remote call returned o.
Normalize(o) ==
  CASE o.k = "none" -> NoneOutcome
    [] o.k = "str" -> Return(<<o>>)
    [] o.k = "list" -> Return(FilterStr(o.l))
    [] o.k = "dict" ->
         LET i == FirstKey(o.d, StrKeys, "str")
             j == FirstKey(o.d, ListKeys, "list")
         IN IF i # 0 THEN Return(<<o.d[StrKeys[i]]>>)
            ELSE IF j # 0 THEN Return(FilterStr(o.d[ListKeys[j]].l))
            ELSE Continue
    [] o.k = "obj" -> Return(<<o.l[1]>>)
    [] o.k = "objraise" -> Throw(o.s)
    [] OTHER -> Continue

\* ------------------------------------------------------ run_model: the loop
AttemptRange_m(n) == 1..(n - 1)
\* range(1, retries + 1)
AttemptRange(n) == 1..n

\* backoff * attempt
SleepFor(b, a) == b * a

ExceptLastErr_m(prev, e) == IF prev = NoErr THEN e ELSE prev
\* last_err = e
ExceptLastErr(prev, e) == e

CallEv(a, res, e) == [ev |-> "call", attempt |-> a, res |-> res, err |-> e, dur |-> 0]
SleepEv(a, dur) == [ev |-> "sleep", attempt |-> a, res |-> "", err |-> NoErr, dur |-> dur]

\* The except handler of one iteration: log, sleep, continue.
Except(e, res) ==
  /\ last_err' = ExceptLastErr(last_err, e)
  /\ trace' = trace \o <<CallEv(attempt, res, e), SleepEv(attempt, SleepFor(backoff, attempt))>>
  /\ attempt' = attempt + 1
  /\ UNCHANGED <<rm_pc, retries, backoff, result>>

\* One iteration in which replicate_mod.run raises.
AttemptRemoteRaises(r) ==
  /\ rm_pc = "loop"
  /\ attempt \in AttemptRange(retries)
  /\ r.k = "raise"
  /\ out' = out
  /\ Except(r.s, "raise")

\* One iteration in which the call returns and the handling of out raises.
AttemptUrlRaises(r) ==
  /\ rm_pc = "loop"
  /\ attempt \in AttemptRange(retries)
  /\ r.k # "raise"
  /\ Normalize(r).act = "raise"
  /\ out' = r
  /\ Except(Normalize(r).err, "urlraise")

\* One iteration that ends at a return statement.
AttemptReturns(r) ==
  /\ rm_pc = "loop"
  /\ attempt \in AttemptRange(retries)
  /\ r.k # "raise"
  /\ Normalize(r).act = "return"
  /\ out' = r
  /\ trace' = Append(trace, CallEv(attempt, "ok", NoErr))
  /\ result' = Normalize(r)
  /\ rm_pc' = "returned"
  /\ UNCHANGED <<retries, backoff, attempt, last_err>>

\* One iteration that reaches `continue` or the end of the try block.
AttemptSoftFails(r) ==
  /\ rm_pc = "loop"
  /\ attempt \in AttemptRange(retries)
  /\ r.k # "raise"
  /\ Normalize(r).act = "continue"
  /\ out' = r
  /\ trace' = Append(trace, CallEv(attempt, "soft", NoErr))
  /\ attempt' = attempt + 1
  /\ UNCHANGED <<rm_pc, retries, backoff, last_err, result>>

AfterLoopErr_m(le) == GenericErr
\* if last_err: raise last_err; raise RuntimeError(...)
AfterLoopErr(le) == IF le # NoErr THEN le ELSE GenericErr

\* The loop is over: raise last_err, or the RuntimeError.
RaiseAfterLoop ==
  /\ rm_pc = "loop"
  /\ attempt \notin AttemptRange(retries)
  /\ result' = Throw(AfterLoopErr(last_err))
  /\ rm_pc' = "raised"
  /\ UNCHANGED <<retries, backoff, attempt, last_err, out, trace>>

\* run_model is called with retries n and backoff b.
RunModelEntry(n, b) ==
  /\ rm_pc = "loop"
  /\ retries = n
  /\ backoff = b
  /\ attempt = 1
  /\ last_err = NoErr
  /\ out = PyNone
  /\ trace = <<>>
  /\ result = Continue

\* The same, as the step of a caller.
RunModelCalled(n, b) ==
  /\ rm_pc' = "loop"
  /\ retries' = n
  /\ backoff' = b
  /\ attempt' = 1
  /\ last_err' = NoErr
  /\ out' = PyNone
  /\ trace' = <<>>
  /\ result' = Continue

\* No call of run_model is in progress.
RunModelIdle ==
  /\ rm_pc = "idle"
  /\ retries = DefaultRetries
  /\ backoff = DefaultBackoff
  /\ attempt = 1
  /\ last_err = NoErr
  /\ out = PyNone
  /\ trace = <<>>
  /\ result = Continue

\* The caller has taken what run_model returned or raised.
RunModelLeft ==
  /\ rm_pc' = "idle"
  /\ retries' = DefaultRetries
  /\ backoff' = DefaultBackoff
  /\ attempt' = 1
  /\ last_err' = NoErr
  /\ out' = PyNone
  /\ trace' = <<>>
  /\ result' = Continue

\* ==================================================================== main
\* ------------------------------------------------------------------ bounds
MaxTracks == 2
MaxRuns == 2

\* ------------------------------------------------------- program constants
PoolSize == 30
SnippetSeconds == 15

VARIABLES
  pc,            \* where main is: "off" | "idle" | "track" | "gen" | "features"
                 \* | "snippet" | "flush" | "done" | "aborted"
  args,          \* the parsed arguments
  model_version, \* local model_version
  existing,      \* local existing: the DataFrame read from tracks.csv, or None
  prompts,       \* local prompts
  idx,           \* the loop variable idx (0-based)
  rows,          \* local rows
  gen_time,      \* local gen_time
  features,      \* local features
  ledger,        \* the file outputs/tracks.csv
  disk,          \* the files under outputs/audio and outputs/snippets
  log,           \* the calls main made in this run, in order
  runNo,         \* how many runs were started
  prev,          \* how the run before this one ended, and at which idx
  error          \* the exception that ended the run

mainVars == <<pc, args, model_version, existing, prompts, idx, rows, gen_time,
              features, ledger, disk, log, runNo, prev, error>>

\* ----------------------------------------------------------- sample_prompts
\* The i-th draw of the stream random.seed(seed) starts, as an index into
\* PROMPT_POOL; distinct for i in 1..PoolSize, as random.sample's draws are.
Draw(seed, i) == ((seed + 11 * i) % PoolSize) + 1

\* sample_prompts(num, seed); random.sample raises ValueError on a negative num.
SamplePrompts(num, seed) ==
  IF num < 0 THEN [ok |-> FALSE, val |-> <<>>]
  ELSE IF num <= PoolSize THEN [ok |-> TRUE, val |-> [i \in 1..num |-> Draw(seed, i)]]
  ELSE [ok |-> TRUE, val |-> [i \in 1..num |-> Draw(seed, i * i)]]

\* ------------------------------------------------------------------- paths
RECURSIVE Digits(_)
Digits(n) == IF n < 10 THEN <<n>> ELSE Append(Digits(n \div 10), n % 10)

\* f"{n:02d}"
Pad2(n) == IF Len(Digits(n)) < 2 THEN <<0>> \o Digits(n) ELSE Digits(n)

\* os.path.join(audio_dir, f"song_{idx+1:02d}.wav")
AudioPath(i) == <<"outputs/audio", "song_", Pad2(i + 1), ".wav">>

\* os.path.join(snippet_dir, f"song_{idx+1:02d}_snippet.wav")
SnippetPath(i) == <<"outputs/snippets", "song_", Pad2(i + 1), "_snippet.wav">>

\* ------------------------------------------------------------------ ledger
NoFrame == [none |-> TRUE, rows |-> <<>>]
NoLedger == [exists |-> FALSE, rows |-> <<>>]

\* pd.read_csv(csv_path) under try/except: a file written from no rows has no
\* columns, read_csv raises on it and existing stays None.
ReadCsv(file) ==
  IF file.rows = <<>> THEN NoFrame ELSE [none |-> FALSE, rows |-> file.rows]

\* existing, as main loads it.
LoadExisting(file, force) ==
  IF file.exists /\ ~force THEN ReadCsv(file) ELSE NoFrame

Matches_m(ex, path) ==
  {i \in 1..Len(ex.rows) : ex.rows[i].audio_path = path /\ ex.rows[i].model = args.model}
\* existing["audio_path"] == audio_path
Matches(ex, path) == {i \in 1..Len(ex.rows) : ex.rows[i].audio_path = path}

Skip_m(ex, path) == ~ex.none /\ Matches(ex, path) # {} /\ path \in DOMAIN disk
\* existing is not None and (existing.get("audio_path") == audio_path).any()
Skip(ex, path) == ~ex.none /\ Matches(ex, path) # {}

PriorGenTime_m(ex, path) == 0
\* float(existing.loc[existing["audio_path"] == audio_path,
\*                    "generation_time_seconds"].iloc[0])
PriorGenTime(ex, path) ==
  LET m == Matches(ex, path)
  IN ex.rows[CHOOSE i \in m : \A j \in m : i <= j].generation_time_seconds

\* A skip check that looks for the audio file instead of the ledger row.
CheckLedger_m(ex, path) ==
  [skip |-> path \in DOMAIN disk,
   gen_time |-> IF Skip(ex, path) THEN PriorGenTime(ex, path) ELSE 0]
\* The condition of the loop body's if, and the gen_time of its skip branch.
CheckLedger(ex, path) ==
  [skip |-> Skip(ex, path),
   gen_time |-> IF Skip(ex, path) THEN PriorGenTime(ex, path) ELSE 0]

\* Times are in units of 0.0001 s; round(gen_time, 3) keeps whole ms.
Round3(t) == ((t + 5) \div 10) * 10

\* time.perf_counter() - start, as it may come out.
GenTimes == {12344, 20006}

LedgerInLoop_m(file, rs) == [exists |-> TRUE, rows |-> rs]
\* The loop body does not write tracks.csv.
LedgerInLoop(file, rs) == file

ToCsv_m(ex, rs) == [exists |-> TRUE, rows |-> ex.rows \o rs]
\* pd.DataFrame(rows).to_csv(csv_path, index=False)
ToCsv(ex, rs) == [exists |-> TRUE, rows |-> rs]

\* ------------------------------------------------------------------ inputs
Seeds == {42, 7}
Models == {"lucataco/ace-step", "meta/musicgen"}
Methods == {"random"}
ModelVersions == {""}

\* The command lines tried: two configurations that differ in seed and model.
ArgSets ==
  {a \in [num_tracks : -1..MaxTracks, seed : Seeds, model : Models,
          force : BOOLEAN, snippet_method : Methods] :
     a.seed = 42 <=> a.model = "lucataco/ace-step"}

\* What replicate_mod.run may do on one call made for main: one response of
\* each outcome of run_model.
MainResponses ==
  { RemoteRaise("E1"), PyNone, PyStr("u1"), PyList(<<PyInt>>), PyObjRaising("E3") }

NoArgs ==
  [num_tracks |-> 0, seed |-> 42, model |-> "lucataco/ace-step", force |-> FALSE,
   snippet_method |-> "random"]

LogEv(op, i) == [op |-> op, idx |-> i]

\* The audio the model made for a prompt, fetched from url and saved as WAV.
Generated(url, prompt, model) ==
  [url |-> url, prompt |-> prompt, model |-> model, cut |-> <<>>]

\* The file make_snippet writes: a cut of the source audio, chosen by method
\* and seed.
MakeSnippet(audio, method, seed) == [audio EXCEPT !.cut = <<method, seed>>]

\* compute_audio_features(audio_path): the descriptors of the file's audio.
ComputeFeatures(audio) == [of |-> audio]

\* ------------------------------------------------------------ main: steps
\* The process has ended, by the end of main or by an uncaught exception:
\* its locals are gone, the files stay.
Exit ==
  /\ pc \in {"done", "aborted"}
  /\ pc' = "idle"
  /\ prev' = [outcome |-> pc, at |-> idx]
  /\ args' = NoArgs
  /\ model_version' = ""
  /\ existing' = NoFrame
  /\ prompts' = <<>>
  /\ idx' = 0
  /\ rows' = <<>>
  /\ gen_time' = 0
  /\ features' = <<>>
  /\ log' = <<>>
  /\ error' = NoErr
  /\ UNCHANGED <<ledger, disk, runNo, rmVars>>

Abort(e) ==
  /\ pc' = "aborted"
  /\ error' = e
  /\ RunModelLeft
  /\ UNCHANGED <<args, model_version, existing, prompts, idx, rows, gen_time,
                 features, ledger, disk, log, runNo, prev>>

Begin(a, mv) ==
  /\ pc = "idle"
  /\ runNo < MaxRuns
  /\ runNo' = runNo + 1
  /\ args' = a
  /\ model_version' = mv
  /\ rows' = <<>>
  /\ idx' = 0
  /\ gen_time' = 0
  /\ features' = <<>>
  /\ log' = <<>>
  /\ UNCHANGED <<ledger, disk, prev, rmVars>>

\* main without REPLICATE_API_TOKEN: raises before anything else.
StartRunNoToken(a) ==
  /\ Begin(a, "")
  /\ prompts' = <<>>
  /\ existing' = NoFrame
  /\ pc' = "aborted"
  /\ error' = "RuntimeError: REPLICATE_API_TOKEN not set"

\* main with a num_tracks sample_prompts raises on.
StartRunBadCount(a) ==
  /\ Begin(a, "")
  /\ ~SamplePrompts(a.num_tracks, a.seed).ok
  /\ prompts' = <<>>
  /\ existing' = NoFrame
  /\ pc' = "aborted"
  /\ error' = "ValueError"

\* main up to the loop: prompts, existing, model_version.
StartRun(a, mv) ==
  /\ Begin(a, mv)
  /\ SamplePrompts(a.num_tracks, a.seed).ok
  /\ prompts' = SamplePrompts(a.num_tracks, a.seed).val
  /\ existing' = LoadExisting(ledger, a.force)
  /\ pc' = IF SamplePrompts(a.num_tracks, a.seed).val = <<>> THEN "flush" ELSE "track"
  /\ error' = NoErr

\* The skip branch of the loop body.
TrackSkip ==
  /\ pc = "track"
  /\ CheckLedger(existing, AudioPath(idx)).skip
  /\ gen_time' = CheckLedger(existing, AudioPath(idx)).gen_time
  /\ pc' = "features"
  /\ UNCHANGED <<args, model_version, existing, prompts, idx, rows, features,
                 ledger, disk, log, runNo, prev, error, rmVars>>

\* The else branch: run_model is called.
TrackGenerate ==
  /\ pc = "track"
  /\ ~CheckLedger(existing, AudioPath(idx)).skip
  /\ log' = Append(log, LogEv("run_model", idx))
  /\ RunModelCalled(DefaultRetries, DefaultBackoff)
  /\ pc' = "gen"
  /\ UNCHANGED <<args, model_version, existing, prompts, idx, rows, gen_time,
                 features, ledger, disk, runNo, prev, error>>

\* run_model raised: main does not catch it.
GenerateRaises ==
  /\ pc = "gen"
  /\ rm_pc = "raised"
  /\ Abort(result.err)

\* if not urls: raise RuntimeError
GenerateEmpty ==
  /\ pc = "gen"
  /\ rm_pc = "returned"
  /\ result.val = <<>>
  /\ Abort("RuntimeError: No audio URLs returned by the model")

\* download_audio_to_wav(urls[0], audio_path) writes the file.
Download(t) ==
  /\ pc = "gen"
  /\ rm_pc = "returned"
  /\ result.val # <<>>
  /\ result.val[1].k = "str"
  /\ gen_time' = t
  /\ disk' = (AudioPath(idx) :> Generated(result.val[1].s, prompts[idx + 1], args.model))
             @@ disk
  /\ log' = Append(log, LogEv("download", idx))
  /\ pc' = "features"
  /\ RunModelLeft
  /\ UNCHANGED <<args, model_version, existing, prompts, idx, rows, features,
                 ledger, runNo, prev, error>>

\* download_audio_to_wav raises: the request fails, the bytes do not decode,
\* or urls[0] is no URL.
DownloadFails ==
  /\ pc = "gen"
  /\ rm_pc = "returned"
  /\ result.val # <<>>
  /\ Abort("download_audio_to_wav")

Features ==
  /\ pc = "features"
  /\ AudioPath(idx) \in DOMAIN disk
  /\ features' = ComputeFeatures(disk[AudioPath(idx)])
  /\ log' = Append(log, LogEv("features", idx))
  /\ pc' = "snippet"
  /\ UNCHANGED <<args, model_version, existing, prompts, idx, rows, gen_time,
                 ledger, disk, runNo, prev, error, rmVars>>

\* librosa.load raises: the file is missing or cannot be read.
FeaturesFail ==
  /\ pc = "features"
  /\ Abort("compute_audio_features")

\* make_snippet(...) and the row of this track.
Row ==
  [song_id |-> <<runNo, idx>>,
   prompt |-> prompts[idx + 1],
   model |-> args.model,
   model_version |-> model_version,
   audio_path |-> AudioPath(idx),
   generation_time_seconds |-> Round3(gen_time),
   snippet_path |-> SnippetPath(idx),
   snippet_method |-> args.snippet_method,
   snippet_length |-> SnippetSeconds,
   features |-> features]

Snippet ==
  /\ pc = "snippet"
  /\ disk' = (SnippetPath(idx) :>
                MakeSnippet(disk[AudioPath(idx)], args.snippet_method, args.seed + idx))
             @@ disk
  /\ log' = Append(log, LogEv("snippet", idx))
  /\ rows' = Append(rows, Row)
  /\ ledger' = LedgerInLoop(ledger, Append(rows, Row))
  /\ idx' = idx + 1
  /\ pc' = IF idx + 1 < Len(prompts) THEN "track" ELSE "flush"
  /\ UNCHANGED <<args, model_version, existing, prompts, gen_time, features,
                 runNo, prev, error, rmVars>>

\* make_snippet raises: the source does not decode or the export fails.
SnippetFails ==
  /\ pc = "snippet"
  /\ Abort("make_snippet")

\* After the loop: the rows are written to tracks.csv.
Flush ==
  /\ pc = "flush"
  /\ ledger' = ToCsv(existing, rows)
  /\ pc' = "done"
  /\ UNCHANGED <<args, model_version, existing, prompts, idx, rows, gen_time,
                 features, disk, log, runNo, prev, error, rmVars>>

\* Between two runs the audio file of track i is removed from outputs/audio;
\* main looks for it only when it reads it.
RemoveAudio(i) ==
  /\ pc = "idle"
  /\ AudioPath(i) \in DOMAIN disk
  /\ disk' = [f \in DOMAIN disk \ {AudioPath(i)} |-> disk[f]]
  /\ UNCHANGED <<pc, args, model_version, existing, prompts, idx, rows, gen_time,
                 features, ledger, log, runNo, prev, error, rmVars>>

\* ============================================================= make_snippet
\* ------------------------------------------------------------------ bounds
MaxFrames == 8
MaxSnippetMs == 5
\* The frame rate of the source file, in frames per millisecond.
FramesPerMs == 2

VARIABLES
  sn_pc,       \* "off" | "load" | "select" | "export" | "done"
  source,      \* the audio of source_wav, as its number of frames
  snippet_ms,  \* parameter snippet_ms
  method,      \* parameter method
  seed,        \* parameter seed
  audio,       \* local audio, as its number of frames
  length_ms,   \* local length_ms
  start_ms,    \* local start_ms
  sn_result,   \* what make_snippet returned
  wave,        \* the samples librosa.load(source_wav, sr) gives
  sr,          \* the analysis rate sr, in samples per second
  rms_start    \* what _find_highest_rms_window_ms returned

snVars == <<sn_pc, source, snippet_ms, method, seed, audio, length_ms, start_ms,
            sn_result, wave, sr, rms_start>>

VARIABLES
  cf_pc,      \* compute_audio_features: "off" | "load" | a descriptor
              \* | "return" | "returned" | "raised"
  cf_y,       \* local y: the samples load_audio_for_features gives
  fails,      \* the steps that raise on this file
  fields,     \* the locals tempo_bpm, rms_mean, ... computed so far
  cf_result   \* what compute_audio_features returned or raised

cfVars == <<cf_pc, cf_y, fails, fields, cf_result>>

vars == <<rmVars, mainVars, snVars, cfVars>>

\* round(p / q) as Python rounds a float: to the nearest, a half to the even.
RoundDiv(p, q) ==
  LET fl == p \div q
      r == p % q
  IN IF 2 * r < q THEN fl
     ELSE IF 2 * r > q THEN fl + 1
     ELSE IF fl % 2 = 0 THEN fl ELSE fl + 1

\* len(audio): round(1000 * frame_count / frame_rate)
LenMs(frames) == RoundDiv(frames, FramesPerMs)

\* math.ceil(a / b) for a >= 0 and b >= 1
Ceil(a, b) == (a + b - 1) \div b

Max(a, b) == IF a >= b THEN a ELSE b

\* math.ceil(snippet_ms / max(1, length_ms))
Loops(target, len) == Ceil(target, Max(1, len))

\* rng.randint(lo, hi) as the first draw of random.Random(sd).
Randint(sd, lo, hi) == lo + ((7 * sd + 3) % (hi - lo + 1))

\* The start the random branch and the fallback branch pick.
RandomStart(sd, len, target) ==
  LET max_start == Max(0, len - target)
  IN IF max_start > 0 THEN Randint(sd, 0, max_start) ELSE 0

\* AudioSegment.from_file, len(audio), and the loop when the source is short.
SnLoop ==
  /\ sn_pc = "load"
  /\ LenMs(source) < snippet_ms
  /\ audio' = source * Loops(snippet_ms, LenMs(source))
  /\ length_ms' = LenMs(source * Loops(snippet_ms, LenMs(source)))
  /\ sn_pc' = "select"
  /\ UNCHANGED <<source, snippet_ms, method, seed, start_ms, sn_result, wave, sr, rms_start>>

\* The same with a source that is long enough.
SnNoLoop ==
  /\ sn_pc = "load"
  /\ ~(LenMs(source) < snippet_ms)
  /\ audio' = source
  /\ length_ms' = LenMs(source)
  /\ sn_pc' = "select"
  /\ UNCHANGED <<source, snippet_ms, method, seed, start_ms, sn_result, wave, sr, rms_start>>

\* if method == "random"
SnSelectRandom ==
  /\ sn_pc = "select"
  /\ method = "random"
  /\ start_ms' = RandomStart(seed, length_ms, snippet_ms)
  /\ sn_pc' = "export"
  /\ UNCHANGED <<source, snippet_ms, method, seed, audio, length_ms, sn_result, wave, sr,
                 rms_start>>

FallbackStart_m(sd, len, target) == 0
\* The else branch: max_start, and rng.randint(0, max_start) if max_start > 0.
FallbackStart(sd, len, target) ==
  LET max_start == Max(0, len - target)
  IN IF max_start > 0 THEN Randint(sd, 0, max_start) ELSE 0

\* else: the fallback behaves like random
SnSelectFallback ==
  /\ sn_pc = "select"
  /\ method \notin {"random", "highest_rms"}
  /\ start_ms' = FallbackStart(seed, length_ms, snippet_ms)
  /\ sn_pc' = "export"
  /\ UNCHANGED <<source, snippet_ms, method, seed, audio, length_ms, sn_result, wave, sr,
                 rms_start>>

\* The fades, the export and the return.
SnExport ==
  /\ sn_pc = "export"
  /\ sn_result' = [path |-> "target_wav", method |-> method,
                   length |-> [num |-> snippet_ms, den |-> 1000]]
  /\ sn_pc' = "done"
  /\ UNCHANGED <<source, snippet_ms, method, seed, audio, length_ms, start_ms, wave, sr,
                 rms_start>>

\* ------------------------------------------- _find_highest_rms_window_ms
\* ------------------------------------------------------------------ bounds
MaxSamples == 5

Min(a, b) == IF a <= b THEN a ELSE b

\* int(sr * (window_ms / 1000.0))
WindowSamples(window_ms, r) == (r * window_ms) \div 1000

\* int(sr * 0.05)
HopSamples(r) == (r * 5) \div 100

\* The sum of segment**2 for segment = y[start : start + w].
RECURSIVE SumSquares(_, _, _)
SumSquares(y, start, w) ==
  IF w <= 0 THEN 0
  ELSE y[start + w] * y[start + w] + SumSquares(y, start, w - 1)

\* float(np.sqrt(np.mean(segment**2))), as the sum of the squares: the
\* segments of one scan have the same size, and the mean and the square root
\* keep the order and the equality of the sums.
Rms(y, start, w) == SumSquares(y, start, w)

Better_m(rms, best_rms) == rms >= best_rms
\* if rms > best_rms
Better(rms, best_rms) == rms > best_rms

\* for start in range(0, len(y) - window_samples + 1, hop_samples), from
\* start on, with best_start and best_rms as they are.
RECURSIVE Scan(_, _, _, _, _, _)
Scan(y, w, h, start, best_start, best_rms) ==
  IF start >= Len(y) - w + 1 THEN best_start
  ELSE IF Better(Rms(y, start, w), best_rms)
       THEN Scan(y, w, h, start + h, start, Rms(y, start, w))
       ELSE Scan(y, w, h, start + h, best_start, best_rms)

\* _find_highest_rms_window_ms(path, window_ms, sr), y the samples of path.
FindHighestRmsWindowMs(y, window_ms, r) ==
  IF Len(y) = 0 THEN 0
  ELSE IF WindowSamples(window_ms, r) <= 0 \/ WindowSamples(window_ms, r) >= Len(y) THEN 0
  ELSE (1000 * Scan(y, WindowSamples(window_ms, r), HopSamples(r), 0, 0, -1)) \div r

ClampStart_m(s, len, target) == s
\* int(max(0, min(start_ms, max(0, length_ms - snippet_ms))))
ClampStart(s, len, target) == Max(0, Min(s, Max(0, len - target)))

\* elif method == "highest_rms": the scan reads source_wav again.
SnSelectRms ==
  /\ sn_pc = "select"
  /\ method = "highest_rms"
  /\ rms_start' = FindHighestRmsWindowMs(wave, snippet_ms, sr)
  /\ start_ms' = ClampStart(FindHighestRmsWindowMs(wave, snippet_ms, sr), length_ms,
                            snippet_ms)
  /\ sn_pc' = "export"
  /\ UNCHANGED <<source, snippet_ms, method, seed, audio, length_ms, sn_result, wave, sr>>

\* ------------------------------------------------------------------ inputs
\* The amplitudes of a sample.
Amps == {-1, 0, 1}

\* The waveforms tried.
Waves == UNION {[1..n -> Amps] : n \in 0..MaxSamples}

\* The analysis rate the scan runs at. The code passes its default, 22050;
\* the model runs the same arithmetic at a rate that keeps waveforms short:
\* a sample is 25 ms and the hop of 0.05 s is 2 samples.
Rates == {40}

\* The snippet lengths tried with waveforms, in ms.
WaveTargets == {0, 30, 50, 75, 100}

\* The number of frames of a file that loads as y at rate r; the file's own
\* rate is 1000 * FramesPerMs.
FramesOf(y, r) == Len(y) * ((1000 * FramesPerMs) \div r)

SnMethods == {"random", "loudest"}
WaveMethods == {"random", "highest_rms", "loudest"}

\* The waveform of source_wav is y when loaded at rate r.
WaveEntry(y, r) ==
  /\ wave = y
  /\ sr = r
  /\ rms_start = 0

\* make_snippet is called.
SnEntry(f, t, m, sd) ==
  /\ sn_pc = "load"
  /\ source = f
  /\ snippet_ms = t
  /\ method = m
  /\ seed = sd
  /\ audio = f
  /\ length_ms = 0
  /\ start_ms = 0
  /\ sn_result = <<>>

SnOff ==
  /\ sn_pc = "off"
  /\ source = 0
  /\ snippet_ms = 0
  /\ method = "random"
  /\ seed = 0
  /\ audio = 0
  /\ length_ms = 0
  /\ start_ms = 0
  /\ sn_result = <<>>
  /\ WaveEntry(<<>>, 0)

\* =================================================== compute_audio_features
\* The descriptors, in the order the code computes them.
Descriptors == <<"tempo_bpm", "rms_mean", "spectral_centroid_mean",
                 "zero_crossing_rate_mean", "mfcc1_mean">>

\* The keys of the returned dict.
FieldNames == {"duration_seconds"} \cup {Descriptors[i] : i \in 1..Len(Descriptors)}

\* The value 0.0, and the value a descriptor computes from y.
Zero == [v |-> "0.0", of |-> <<>>]
Computed(d, samples) == [v |-> d, of |-> samples]

\* The dict returned for an empty y.
AllZero == [d \in FieldNames |-> Zero]

\* The step after descriptor d.
After(d) ==
  LET i == CHOOSE k \in 1..Len(Descriptors) : Descriptors[k] = d
  IN IF i < Len(Descriptors) THEN Descriptors[i + 1] ELSE "return"

\* The descriptors computed inside a try/except.
Guarded == {"tempo_bpm"}

\* librosa.load raises: the exception leaves compute_audio_features.
CfLoadFails ==
  /\ cf_pc = "load"
  /\ "load" \in fails
  /\ cf_pc' = "raised"
  /\ cf_result' = [ok |-> FALSE, val |-> <<>>, err |-> "load"]
  /\ UNCHANGED <<cf_y, fails, fields>>

\* if y.size == 0: return the all-zero dict
CfEmpty ==
  /\ cf_pc = "load"
  /\ "load" \notin fails
  /\ cf_y = <<>>
  /\ cf_pc' = "returned"
  /\ cf_result' = [ok |-> TRUE, val |-> AllZero, err |-> "None"]
  /\ UNCHANGED <<cf_y, fails, fields>>

\* duration_seconds = float(librosa.get_duration(y=y, sr=sr))
CfDuration ==
  /\ cf_pc = "load"
  /\ "load" \notin fails
  /\ cf_y # <<>>
  /\ fields' = ("duration_seconds" :> Computed("duration_seconds", cf_y))
  /\ cf_pc' = Descriptors[1]
  /\ UNCHANGED <<cf_y, fails, cf_result>>

\* The descriptor d is computed.
CfCompute(d) ==
  /\ cf_pc = d
  /\ d \notin fails
  /\ fields' = (d :> Computed(d, cf_y)) @@ fields
  /\ cf_pc' = After(d)
  /\ UNCHANGED <<cf_y, fails, cf_result>>

\* The computation of d raises inside try/except: the field becomes 0.0.
CfCaught(d) ==
  /\ cf_pc = d
  /\ d \in fails
  /\ d \in Guarded
  /\ fields' = (d :> Zero) @@ fields
  /\ cf_pc' = After(d)
  /\ UNCHANGED <<cf_y, fails, cf_result>>

\* The computation of d raises outside any try: the exception leaves
\* compute_audio_features.
CfRaises(d) ==
  /\ cf_pc = d
  /\ d \in fails
  /\ d \notin Guarded
  /\ cf_pc' = "raised"
  /\ cf_result' = [ok |-> FALSE, val |-> <<>>, err |-> d]
  /\ UNCHANGED <<cf_y, fails, fields>>

\* return {...}
CfReturn ==
  /\ cf_pc = "return"
  /\ cf_pc' = "returned"
  /\ cf_result' = [ok |-> TRUE, val |-> fields, err |-> "None"]
  /\ UNCHANGED <<cf_y, fails, fields>>

\* The waveforms tried: empty, one sample, two samples.
FeatureWaves == {<<>>, <<1>>, <<0, -1>>}

\* The steps that may raise.
Steps == {"load"} \cup {Descriptors[i] : i \in 1..Len(Descriptors)}

\* compute_audio_features is called on a file that loads as samples and on
\* which the steps of f raise.
CfEntry(samples, f) ==
  /\ cf_pc = "load"
  /\ cf_y = samples
  /\ fails = f
  /\ fields = <<>>
  /\ cf_result = [ok |-> TRUE, val |-> <<>>, err |-> "None"]

CfOff ==
  /\ cf_pc = "off"
  /\ cf_y = <<>>
  /\ fails = {}
  /\ fields = <<>>
  /\ cf_result = [ok |-> TRUE, val |-> <<>>, err |-> "None"]

\* ---------------------------------------------------------- specifications
MainOff ==
  /\ pc = "off"
  /\ args = NoArgs
  /\ model_version = ""
  /\ existing = NoFrame
  /\ prompts = <<>>
  /\ idx = 0
  /\ rows = <<>>
  /\ gen_time = 0
  /\ features = <<>>
  /\ ledger = NoLedger
  /\ disk = <<>>
  /\ log = <<>>
  /\ runNo = 0
  /\ prev = [outcome |-> "idle", at |-> 0]
  /\ error = NoErr

InitRunModel ==
  /\ \E n \in 0..MaxRetries, b \in 0..MaxBackoff : RunModelEntry(n, b)
  /\ MainOff
  /\ SnOff
  /\ CfOff

NextRunModel ==
  \/ \E r \in Responses : AttemptRemoteRaises(r) /\ UNCHANGED <<mainVars, snVars, cfVars>>
  \/ \E r \in Responses : AttemptUrlRaises(r) /\ UNCHANGED <<mainVars, snVars, cfVars>>
  \/ \E r \in Responses : AttemptReturns(r) /\ UNCHANGED <<mainVars, snVars, cfVars>>
  \/ \E r \in Responses : AttemptSoftFails(r) /\ UNCHANGED <<mainVars, snVars, cfVars>>
  \/ RaiseAfterLoop /\ UNCHANGED <<mainVars, snVars, cfVars>>

SpecRunModel == InitRunModel /\ [][NextRunModel]_vars

InitMain ==
  /\ pc = "idle"
  /\ args = NoArgs
  /\ model_version = ""
  /\ existing = NoFrame
  /\ prompts = <<>>
  /\ idx = 0
  /\ rows = <<>>
  /\ gen_time = 0
  /\ features = <<>>
  /\ ledger = NoLedger
  /\ disk = <<>>
  /\ log = <<>>
  /\ runNo = 0
  /\ prev = [outcome |-> "idle", at |-> 0]
  /\ error = NoErr
  /\ RunModelIdle
  /\ SnOff
  /\ CfOff

NextMain ==
  \/ \E a \in ArgSets : StartRunNoToken(a) /\ UNCHANGED <<snVars, cfVars>>
  \/ \E a \in ArgSets : StartRunBadCount(a) /\ UNCHANGED <<snVars, cfVars>>
  \/ \E a \in ArgSets, mv \in ModelVersions : StartRun(a, mv) /\ UNCHANGED <<snVars, cfVars>>
  \/ TrackSkip /\ UNCHANGED <<snVars, cfVars>>
  \/ TrackGenerate /\ UNCHANGED <<snVars, cfVars>>
  \/ \E r \in MainResponses : pc = "gen" /\ AttemptRemoteRaises(r) /\ UNCHANGED <<mainVars, snVars, cfVars>>
  \/ \E r \in MainResponses : pc = "gen" /\ AttemptUrlRaises(r) /\ UNCHANGED <<mainVars, snVars, cfVars>>
  \/ \E r \in MainResponses : pc = "gen" /\ AttemptReturns(r) /\ UNCHANGED <<mainVars, snVars, cfVars>>
  \/ \E r \in MainResponses : pc = "gen" /\ AttemptSoftFails(r) /\ UNCHANGED <<mainVars, snVars, cfVars>>
  \/ pc = "gen" /\ RaiseAfterLoop /\ UNCHANGED <<mainVars, snVars, cfVars>>
  \/ GenerateRaises /\ UNCHANGED <<snVars, cfVars>>
  \/ GenerateEmpty /\ UNCHANGED <<snVars, cfVars>>
  \/ \E t \in GenTimes : Download(t) /\ UNCHANGED <<snVars, cfVars>>
  \/ DownloadFails /\ UNCHANGED <<snVars, cfVars>>
  \/ Features /\ UNCHANGED <<snVars, cfVars>>
  \/ FeaturesFail /\ UNCHANGED <<snVars, cfVars>>
  \/ Snippet /\ UNCHANGED <<snVars, cfVars>>
  \/ SnippetFails /\ UNCHANGED <<snVars, cfVars>>
  \/ Flush /\ UNCHANGED <<snVars, cfVars>>
  \/ Exit /\ UNCHANGED <<snVars, cfVars>>

SpecMain == InitMain /\ [][NextMain]_vars

\* main on the files an earlier run left, some of which are removed between
\* the runs. The runs use one seed and model.
FirstRun(n) ==
  [num_tracks |-> n, seed |-> 42, model |-> "lucataco/ace-step", force |-> FALSE,
   snippet_method |-> "random"]

\* The audio file, the snippet file and the row of track i (0-based) of a
\* run with arguments a in which every track was generated.
RunAudio(a, i) == Generated("u1", SamplePrompts(a.num_tracks, a.seed).val[i + 1], a.model)

RunSnippet(a, i) == MakeSnippet(RunAudio(a, i), a.snippet_method, a.seed + i)

RunRow(a, i) ==
  [song_id |-> <<0, i>>,
   prompt |-> SamplePrompts(a.num_tracks, a.seed).val[i + 1],
   model |-> a.model,
   model_version |-> "",
   audio_path |-> AudioPath(i),
   generation_time_seconds |-> Round3(20006),
   snippet_path |-> SnippetPath(i),
   snippet_method |-> a.snippet_method,
   snippet_length |-> SnippetSeconds,
   features |-> ComputeFeatures(RunAudio(a, i))]

\* tracks.csv and the files under outputs/ after that run.
RunLedger(a) == [exists |-> TRUE, rows |-> [k \in 1..a.num_tracks |-> RunRow(a, k - 1)]]

RunDisk(a) ==
  [f \in {AudioPath(i) : i \in 0..(a.num_tracks - 1)}
          \cup {SnippetPath(i) : i \in 0..(a.num_tracks - 1)} |->
     LET i == CHOOSE k \in 0..(a.num_tracks - 1) : f \in {AudioPath(k), SnippetPath(k)}
     IN IF f = AudioPath(i) THEN RunAudio(a, i) ELSE RunSnippet(a, i)]

InitMissing ==
  /\ pc = "idle"
  /\ args = NoArgs
  /\ model_version = ""
  /\ existing = NoFrame
  /\ prompts = <<>>
  /\ idx = 0
  /\ rows = <<>>
  /\ gen_time = 0
  /\ features = <<>>
  /\ \E n \in 1..MaxTracks :
       /\ ledger = RunLedger(FirstRun(n))
       /\ disk = RunDisk(FirstRun(n))
       /\ prev = [outcome |-> "done", at |-> n]
  /\ log = <<>>
  /\ runNo = 0
  /\ error = NoErr
  /\ RunModelIdle
  /\ SnOff
  /\ CfOff

MissingArgs == {a \in ArgSets : a.seed = 42}

NextMissing ==
  \/ \E i \in 0..(MaxTracks - 1) : RemoveAudio(i) /\ UNCHANGED <<snVars, cfVars>>
  \/ \E a \in MissingArgs : StartRunNoToken(a) /\ UNCHANGED <<snVars, cfVars>>
  \/ \E a \in MissingArgs : StartRunBadCount(a) /\ UNCHANGED <<snVars, cfVars>>
  \/ \E a \in MissingArgs, mv \in ModelVersions : StartRun(a, mv) /\ UNCHANGED <<snVars, cfVars>>
  \/ TrackSkip /\ UNCHANGED <<snVars, cfVars>>
  \/ TrackGenerate /\ UNCHANGED <<snVars, cfVars>>
  \/ \E r \in MainResponses : pc = "gen" /\ AttemptRemoteRaises(r) /\ UNCHANGED <<mainVars, snVars, cfVars>>
  \/ \E r \in MainResponses : pc = "gen" /\ AttemptUrlRaises(r) /\ UNCHANGED <<mainVars, snVars, cfVars>>
  \/ \E r \in MainResponses : pc = "gen" /\ AttemptReturns(r) /\ UNCHANGED <<mainVars, snVars, cfVars>>
  \/ \E r \in MainResponses : pc = "gen" /\ AttemptSoftFails(r) /\ UNCHANGED <<mainVars, snVars, cfVars>>
  \/ pc = "gen" /\ RaiseAfterLoop /\ UNCHANGED <<mainVars, snVars, cfVars>>
  \/ GenerateRaises /\ UNCHANGED <<snVars, cfVars>>
  \/ GenerateEmpty /\ UNCHANGED <<snVars, cfVars>>
  \/ \E t \in GenTimes : Download(t) /\ UNCHANGED <<snVars, cfVars>>
  \/ DownloadFails /\ UNCHANGED <<snVars, cfVars>>
  \/ Features /\ UNCHANGED <<snVars, cfVars>>
  \/ FeaturesFail /\ UNCHANGED <<snVars, cfVars>>
  \/ Snippet /\ UNCHANGED <<snVars, cfVars>>
  \/ SnippetFails /\ UNCHANGED <<snVars, cfVars>>
  \/ Flush /\ UNCHANGED <<snVars, cfVars>>
  \/ Exit /\ UNCHANGED <<snVars, cfVars>>

SpecMissing == InitMissing /\ [][NextMissing]_vars

InitSnippet ==
  /\ \E f \in 0..MaxFrames, t \in 0..MaxSnippetMs, m \in SnMethods, sd \in Seeds :
       SnEntry(f, t, m, sd)
  /\ \E r \in Rates : WaveEntry(<<>>, r)
  /\ MainOff
  /\ RunModelIdle
  /\ CfOff

NextSnippet ==
  \/ SnLoop /\ UNCHANGED <<rmVars, mainVars, cfVars>>
  \/ SnNoLoop /\ UNCHANGED <<rmVars, mainVars, cfVars>>
  \/ SnSelectRandom /\ UNCHANGED <<rmVars, mainVars, cfVars>>
  \/ SnSelectFallback /\ UNCHANGED <<rmVars, mainVars, cfVars>>
  \/ SnExport /\ UNCHANGED <<rmVars, mainVars, cfVars>>

SpecSnippet == InitSnippet /\ [][NextSnippet]_vars

\* make_snippet on sources given with their waveform.
InitWave ==
  /\ \E y \in Waves, r \in Rates, t \in WaveTargets, m \in WaveMethods, sd \in Seeds :
       /\ SnEntry(FramesOf(y, r), t, m, sd)
       /\ WaveEntry(y, r)
  /\ MainOff
  /\ RunModelIdle
  /\ CfOff

NextWave ==
  \/ SnLoop /\ UNCHANGED <<rmVars, mainVars, cfVars>>
  \/ SnNoLoop /\ UNCHANGED <<rmVars, mainVars, cfVars>>
  \/ SnSelectRandom /\ UNCHANGED <<rmVars, mainVars, cfVars>>
  \/ SnSelectRms /\ UNCHANGED <<rmVars, mainVars, cfVars>>
  \/ SnSelectFallback /\ UNCHANGED <<rmVars, mainVars, cfVars>>
  \/ SnExport /\ UNCHANGED <<rmVars, mainVars, cfVars>>

SpecWave == InitWave /\ [][NextWave]_vars

\* compute_audio_features alone.
InitFeatures ==
  /\ \E samples \in FeatureWaves, f \in SUBSET Steps : CfEntry(samples, f)
  /\ MainOff
  /\ RunModelIdle
  /\ SnOff

NextFeatures ==
  \/ CfLoadFails /\ UNCHANGED <<rmVars, mainVars, snVars>>
  \/ CfEmpty /\ UNCHANGED <<rmVars, mainVars, snVars>>
  \/ CfDuration /\ UNCHANGED <<rmVars, mainVars, snVars>>
  \/ \E i \in 1..Len(Descriptors) :
       CfCompute(Descriptors[i]) /\ UNCHANGED <<rmVars, mainVars, snVars>>
  \/ \E i \in 1..Len(Descriptors) :
       CfCaught(Descriptors[i]) /\ UNCHANGED <<rmVars, mainVars, snVars>>
  \/ \E i \in 1..Len(Descriptors) :
       CfRaises(Descriptors[i]) /\ UNCHANGED <<rmVars, mainVars, snVars>>
  \/ CfReturn /\ UNCHANGED <<rmVars, mainVars, snVars>>

SpecFeatures == InitFeatures /\ [][NextFeatures]_vars

\* =================================================================== claims
\* ----------------------------------------------------- run_model, observed
Calls == SelectSeq(trace, LAMBDA ev : ev.ev = "call")
Sleeps == SelectSeq(trace, LAMBDA ev : ev.ev = "sleep")

RECURSIVE SumDur(_)
SumDur(evs) == IF evs = <<>> THEN 0 ELSE evs[1].dur + SumDur(Tail(evs))

\* 1 + 2 + ... + n
RECURSIVE SumTo(_)
SumTo(n) == IF n <= 0 THEN 0 ELSE n + SumTo(n - 1)

Finished == rm_pc \in {"returned", "raised"}
AllCallsAre(kinds) == \A i \in 1..Len(Calls) : Calls[i].res \in kinds

\* C1: with retries >= 1 and backoff >= 0, when every remote call raises,
\* run_model makes exactly `retries` remote calls, then raises the exception
\* of the last call, and has slept at least backoff * (1 + ... + (retries-1)).
T_C1 ==
  (Finished /\ retries >= 1 /\ AllCallsAre({"raise"})) =>
    /\ rm_pc = "raised"
    /\ Len(Calls) = retries
    /\ result.err = Calls[Len(Calls)].err
    /\ SumDur(Sleeps) >= backoff * SumTo(retries - 1)

W_C1 ==
  /\ rm_pc = "raised"
  /\ retries = 3
  /\ backoff = 2
  /\ AllCallsAre({"raise"})
  /\ Calls[1].err # Calls[3].err

\* C2: every failed attempt that is not the final one, failed by an exception
\* or by a soft-fail, is followed by a sleep of backoff * attempt before the
\* next remote call.
CE_C2 ==
  \A i \in 1..Len(trace) :
    (trace[i].ev = "call" /\ trace[i].res # "ok" /\ trace[i].attempt < retries) =>
      /\ i < Len(trace)
      /\ trace[i + 1] = SleepEv(trace[i].attempt, backoff * trace[i].attempt)

\* C3: no sleep happens after the final attempt: no time is slept after an
\* attempt whose number is retries.
CE_C3 ==
  \A i \in 1..Len(trace) :
    (trace[i].ev = "sleep" /\ trace[i].dur > 0) => trace[i].attempt < retries

\* C4 as claimed: run_model returns normally only with at least one locator.
CE_C4 == rm_pc = "returned" => Len(result.val) >= 1

\* A list, bare or under "audio"/"output" of a mapping without a string under
\* a known key, that holds no string entry.
ListWithoutStrings(o) ==
  \/ o.k = "list" /\ \A i \in 1..Len(o.l) : o.l[i].k # "str"
  \/ /\ o.k = "dict"
     /\ \A key \in {"audio", "audio_url", "output", "url"} :
          key \in DOMAIN o.d => o.d[key].k # "str"
     /\ \E key \in {"audio", "output"} :
          /\ key \in DOMAIN o.d
          /\ o.d[key].k = "list"
          /\ \A i \in 1..Len(o.d[key].l) : o.d[key].l[i].k # "str"
          /\ key = "output" => ~("audio" \in DOMAIN o.d /\ o.d["audio"].k = "list")

\* C4 (amended): run_model returns normally with at least one entry, or with
\* an empty list when the response is a list without string entries; after a
\* response of None or of an unrecognized shape it goes on to a further
\* attempt while attempts remain and raises once they are exhausted.
T_C4 ==
  /\ rm_pc = "returned" => (Len(result.val) >= 1 \/ ListWithoutStrings(out))
  /\ (trace # <<>> /\ trace[Len(trace)].res = "soft") =>
       /\ rm_pc \in {"loop", "raised"}
       /\ rm_pc = "raised" => trace[Len(trace)].attempt = retries
       /\ trace[Len(trace)].attempt < retries => rm_pc = "loop"

W_C4 ==
  /\ rm_pc = "returned"
  /\ result.val = <<>>
  /\ out.k = "dict"
  /\ Len(Calls) = 2
  /\ Calls[1].res = "soft"

\* C5: when every attempt failed with an exception, the exception raised is
\* the one of the last attempt; when every attempt soft-failed, the generic
\* RuntimeError is raised.
T_C5 ==
  /\ (rm_pc = "raised" /\ retries >= 1 /\ AllCallsAre({"raise", "urlraise"})) =>
       result.err = Calls[Len(Calls)].err
  /\ (rm_pc = "raised" /\ retries >= 1 /\ AllCallsAre({"soft"})) =>
       result.err = GenericErr

W_C5 ==
  /\ rm_pc = "raised"
  /\ retries = 3
  /\ AllCallsAre({"raise", "urlraise"})
  /\ Calls[1].err = "E1"
  /\ Calls[2].err = "E3"
  /\ Calls[3].err = "E2"

\* C17: whatever shape the remote call returned, every entry of the list
\* run_model returns is a string.
CE_C17 == rm_pc = "returned" => \A i \in 1..Len(result.val) : IsStr(result.val[i])

\* The calls that ended in the except handler.
Raising == {i \in 1..Len(Calls) : Calls[i].res \in {"raise", "urlraise"}}

\* C18: when at least one attempt raised and the attempts after it
\* soft-failed, the error raised at the end is the exception of the last
\* attempt that raised; the generic RuntimeError is raised exactly when no
\* attempt raised, which includes retries <= 0, where no call is made.
T_C18 ==
  rm_pc = "raised" =>
    /\ Raising # {} =>
         result.err = Calls[CHOOSE i \in Raising : \A j \in Raising : j <= i].err
    /\ result.err = GenericErr <=> Raising = {}
    /\ retries <= 0 => Calls = <<>> /\ result.err = GenericErr

W_C18 ==
  /\ rm_pc = "raised"
  /\ retries = 3
  /\ Calls[1].res = "raise"
  /\ Calls[2].res = "urlraise"
  /\ Calls[3].res = "soft"
  /\ result.err = "E3"
\* ------------------------------------------------------------ main, observed
InRun == pc \in {"track", "gen", "features", "snippet", "flush"}

\* The tracks (0-based) whose if-branch this run has taken.
Decided == IF pc \in {"track", "flush"} THEN 0..(idx - 1) ELSE 0..idx

Logged(op, j) == \E i \in 1..Len(log) : log[i] = [op |-> op, idx |-> j]

\* song_<i>.wav and song_<i>_snippet.wav for a 1-based i below 10.
SongWav(i) == <<"outputs/audio", "song_", <<0, i>>, ".wav">>
SnippetWav(i) == <<"outputs/snippets", "song_", <<0, i>>, "_snippet.wav">>

\* The rows tracks.csv holds for the 1-based track i.
LedgerRowsOf(i) == {n \in 1..Len(ledger.rows) : ledger.rows[n].audio_path = SongWav(i)}

\* C15: sample_prompts has no error conditions: for every n <= 0 and every
\* seed it returns an empty sequence without raising.
CE_C15 ==
  (/\ pc \notin {"off", "idle"}
   /\ args.num_tracks <= 0
   /\ error # "RuntimeError: REPLICATE_API_TOKEN not set") =>
    /\ error = NoErr
    /\ prompts = <<>>
    /\ pc \in {"flush", "done"}

\* C6: in a run with force=False, for every track whose audio path has a row
\* in the prior ledger, run_model is not called, the new row carries the prior
\* row's generation_time_seconds, and compute_audio_features and make_snippet
\* are still called.
T_C6 ==
  (InRun /\ ~args.force) =>
    /\ \A j \in Decided : LedgerRowsOf(j + 1) # {} => ~Logged("run_model", j)
    /\ \A k \in 1..Len(rows) : \A n \in LedgerRowsOf(k) :
         /\ rows[k].generation_time_seconds = ledger.rows[n].generation_time_seconds
         /\ Logged("features", k - 1)
         /\ Logged("snippet", k - 1)

W_C6 ==
  /\ pc = "flush"
  /\ ~args.force
  /\ Len(rows) = 2
  /\ LedgerRowsOf(1) # {}
  /\ LedgerRowsOf(2) = {}
  /\ Logged("run_model", 1)
  /\ rows[1].prompt # ledger.rows[1].prompt
  /\ rows[1].generation_time_seconds = 20010

\* C7 as claimed: after a run that aborted at track k with the audio files of
\* the tracks before k on disk, a non-forced run does not call run_model for
\* the tracks before k.
CE_C7 ==
  (InRun /\ ~args.force /\ prev.outcome = "aborted"
     /\ \A j \in 0..(prev.at - 1) : AudioPath(j) \in DOMAIN disk) =>
    \A j \in 0..(prev.at - 1) : ~Logged("run_model", j)

\* C7 (amended): after a run that aborted at track k, a non-forced run skips a
\* track before k exactly when tracks.csv, which the aborted run left as it
\* was, has a row for its audio path; the audio files are not looked at, and
\* every other track is generated again.
T_C7 ==
  (InRun /\ ~args.force /\ prev.outcome = "aborted") =>
    \A j \in Decided :
      j < prev.at => (Logged("run_model", j) <=> LedgerRowsOf(j + 1) = {})

W_C7 ==
  /\ pc = "gen"
  /\ ~args.force
  /\ prev = [outcome |-> "aborted", at |-> 1]
  /\ idx = 0
  /\ AudioPath(0) \in DOMAIN disk
  /\ ~ledger.exists
  /\ Logged("run_model", 0)

\* C8: tracks.csv is written only after all N tracks have appended their row,
\* so a run that aborts leaves it as it was before the run started.
T_C8 ==
  [][ledger' # ledger =>
       /\ pc = "flush"
       /\ pc' = "done"
       /\ Len(rows) = args.num_tracks
       /\ ledger'.rows = rows]_vars

W_C8 ==
  /\ pc = "aborted"
  /\ error = "make_snippet"
  /\ idx = 1
  /\ Len(rows) = 1
  /\ Len(ledger.rows) = 2
  /\ \A n \in 1..2 : ledger.rows[n].song_id[1] = 1
  /\ runNo = 2

\* C9: after a successful run with N tracks, whatever the prior ledger held,
\* tracks.csv holds exactly N rows in track order, row i with the paths
\* song_<i>.wav and song_<i>_snippet.wav, all of them rows of this run.
T_C9 ==
  pc = "done" =>
    /\ ledger.exists
    /\ Len(ledger.rows) = args.num_tracks
    /\ \A i \in 1..Len(ledger.rows) :
         /\ ledger.rows[i].audio_path = SongWav(i)
         /\ ledger.rows[i].snippet_path = SnippetWav(i)
         /\ ledger.rows[i].song_id = <<runNo, i - 1>>

W_C9 ==
  /\ pc = "done"
  /\ runNo = 2
  /\ ~args.force
  /\ args.num_tracks = 1
  /\ Len(existing.rows) = 2
  /\ Len(ledger.rows) = 1

\* C19: the skip decision of a non-forced run depends only on the audio path
\* having a row in the prior ledger, not on the prompt, model or seed: a track
\* is skipped exactly when such a row exists, and the row written for a
\* skipped track carries this run's prompt and model although this run made
\* no audio for it.
T_C19 ==
  (InRun /\ ~args.force) =>
    /\ \A j \in Decided : ~Logged("run_model", j) <=> LedgerRowsOf(j + 1) # {}
    /\ \A k \in 1..Len(rows) :
         /\ rows[k].prompt = prompts[k]
         /\ rows[k].model = args.model
         /\ LedgerRowsOf(k) # {} => ~Logged("download", k - 1)

\* A ledger row whose prompt and model are not those that made the audio at
\* its audio path.
W_C19 ==
  /\ pc = "done"
  /\ ~args.force
  /\ Len(ledger.rows) = 1
  /\ ~Logged("run_model", 0)
  /\ SongWav(1) \in DOMAIN disk
  /\ ledger.rows[1].prompt # disk[SongWav(1)].prompt
  /\ ledger.rows[1].model # disk[SongWav(1)].model

\* C20: when the prior ledger has a row for a track's audio path and the
\* audio file is missing, a non-forced run does not generate the track
\* again: generation is skipped, compute_audio_features fails, the run aborts
\* at that track and leaves the ledger as it was, so that no later non-forced
\* run gets past that track either.
T_C20 ==
  (pc \notin {"off", "idle"} /\ ~args.force) =>
    \A j \in 0..(Len(prompts) - 1) :
      (LedgerRowsOf(j + 1) # {} /\ SongWav(j + 1) \notin DOMAIN disk) =>
        /\ idx <= j
        /\ ~Logged("run_model", j)
        /\ ~Logged("download", j)
        /\ idx = j => pc \in {"track", "features", "aborted"}
        /\ (idx = j /\ pc = "aborted") =>
             /\ error = "compute_audio_features"
             /\ existing.rows = ledger.rows

W_C20 ==
  /\ pc = "aborted"
  /\ runNo = 2
  /\ prev = [outcome |-> "aborted", at |-> 1]
  /\ ~args.force
  /\ error = "compute_audio_features"
  /\ idx = 1
  /\ Len(rows) = 1
  /\ LedgerRowsOf(2) # {}
  /\ SongWav(2) \notin DOMAIN disk
  /\ SongWav(1) \in DOMAIN disk
  /\ ~Logged("run_model", 1)
\* ---------------------------------------------------- make_snippet, observed
Looped == sn_pc \in {"select", "export", "done"}

\* C10: for a source shorter than snippet_ms, a source of length 0 included,
\* the looped length is at least snippet_ms and a whole number of repetitions
\* of the source length.
CE_C10 ==
  (Looped /\ LenMs(source) < snippet_ms) =>
    /\ length_ms >= snippet_ms
    /\ \E n \in 0..(snippet_ms + 1) : length_ms = n * LenMs(source)

Selected == sn_pc \in {"export", "done"}

\* C11: for every method and every source length, the start offset used for
\* the extraction lies in [0, length - target] of the post-loop track, and is
\* 0 when the post-loop track is exactly target or shorter; on a track at
\* least as long as the target the window ends within the track.
T_C11 ==
  Selected =>
    /\ start_ms >= 0
    /\ start_ms <= Max(0, length_ms - snippet_ms)
    /\ length_ms <= snippet_ms => start_ms = 0
    /\ length_ms >= snippet_ms => start_ms + snippet_ms <= length_ms

W_C11 ==
  /\ sn_pc = "done"
  /\ method = "highest_rms"
  /\ rms_start > length_ms - snippet_ms
  /\ start_ms = length_ms - snippet_ms
  /\ start_ms > 0

\* The starts, in samples, of the windows the scan evaluates.
EvaluatedStarts(n, w, h) == {st \in 0..(n - w) : st % h = 0}

\* C12: among the windows of target length evaluated at the fixed hop over
\* the scanned buffer, _find_highest_rms_window_ms returns the start of one
\* whose RMS is >= that of every other evaluated window, the earliest of
\* those of greatest RMS; a buffer that is empty or not longer than the
\* window gives 0.
T_C12 ==
  (Selected /\ method = "highest_rms") =>
    LET n == Len(wave)
        w == WindowSamples(snippet_ms, sr)
        ev == EvaluatedStarts(n, w, HopSamples(sr))
    IN IF n = 0 \/ n <= w \/ w <= 0 THEN rms_start = 0
       ELSE \E st \in ev :
              /\ rms_start = (1000 * st) \div sr
              /\ \A t \in ev :
                   /\ SumSquares(wave, st, w) >= SumSquares(wave, t, w)
                   /\ SumSquares(wave, st, w) = SumSquares(wave, t, w) => st <= t

\* The scan saw three windows, the last two of the greatest RMS: the second
\* is returned.
W_C12 ==
  /\ Selected
  /\ method = "highest_rms"
  /\ wave = <<0, 0, 1, 0, 1>>
  /\ snippet_ms = 30
  /\ rms_start = 50

\* C13: for a method name other than "random" and "highest_rms", make_snippet
\* selects the start that method "random" selects for the same source,
\* target and seed, and returns the requested method name as the method tag.
T_C13 ==
  (method \notin {"random", "highest_rms"}) =>
    /\ Selected => start_ms = RandomStart(seed, length_ms, snippet_ms)
    /\ sn_pc = "done" => sn_result.method = method

W_C13 ==
  /\ sn_pc = "done"
  /\ method = "loudest"
  /\ sn_result.method = "loudest"
  /\ start_ms > 0
  /\ start_ms < length_ms - snippet_ms

\* y, n times over.
RECURSIVE Repeat(_, _)
Repeat(y, n) == IF n <= 0 THEN <<>> ELSE y \o Repeat(y, n - 1)

\* The samples of the post-loop track.
LoopedWave == IF source = 0 THEN wave ELSE Repeat(wave, audio \div source)

\* C16: highest_rms scans the post-loop track: when the source was looped,
\* the chosen start is the best of the windows of the looped audio.
CE_C16 ==
  (Selected /\ method = "highest_rms" /\ LenMs(source) < snippet_ms) =>
    start_ms = ClampStart(FindHighestRmsWindowMs(LoopedWave, snippet_ms, sr),
                          length_ms, snippet_ms)

\* ------------------------------------------ compute_audio_features, observed
\* C14: for a non-empty waveform, a failure while computing one of the
\* descriptors sets only that field to 0.0; the other fields are computed,
\* all six fields are returned and no error reaches the caller.
CE_C14 ==
  (cf_pc \in {"returned", "raised"} /\ cf_y # <<>> /\ "load" \notin fails) =>
    /\ cf_pc = "returned"
    /\ DOMAIN cf_result.val = FieldNames
    /\ \A d \in FieldNames :
         cf_result.val[d] = IF d \in fails THEN Zero ELSE Computed(d, cf_y)
====
